---- MODULE Spec2Model ----
(***************************************************************************)
(* The incident lifecycle pipeline of the KubeSentinel front end:          *)
(*   - generateLog and its scenario cursor (services/logGenerator.ts),     *)
(*   - the App component's state (logs, incidents, isProcessing,           *)
(*     systemStatus), its queue effect processQueue, the interval tick,    *)
(*     handleCriticalLog, handleApprove and handleIgnore (App.tsx),        *)
(*     the Pause Logs button and the saved context window size,            *)
(*   - analyzeLogsStreaming (services/api.ts), seen from App as the        *)
(*     sequence of callbacks one call delivers.                            *)
(*                                                                         *)
(* React: a handler's setState calls are applied in order (every           *)
(* setIncidents is a functional update on the latest value), the           *)
(* component re-renders and the effect with dependencies                   *)
(* [incidents, isProcessing] runs on the rendered values.  One action of   *)
(* this module is one handler together with that render and effect run.    *)
(* Each stream event is delivered by a read of its own.                    *)
(*                                                                         *)
(* Incident ids (Math.random().toString(36).substring(7)) are modelled as  *)
(* fresh: no two incidents share an id.  The wall clock advances by one     *)
(* unit per interval period (the period is at least 100 ms, timestamps    *)
(* have millisecond resolution).  A string that is undefined or '' is the *)
(* empty sequence.                                                         *)
(***************************************************************************)
EXTENDS Integers, Sequences, FiniteSets, TLC

VARIABLES
    logs,                  \* App: useState<LogEntry[]>
    systemStatus,          \* App: useState<SystemStatus>
    incidents,             \* App: useState<Incident[]>
    isProcessing,          \* App: useState(false)
    logContextSize,        \* App: trailing window taken by handleCriticalLog
    currentScenario,       \* logGenerator: 0 is null, else an index of CRITICAL_SCENARIOS
    scenarioMessageIndex,  \* logGenerator: index of the next message, from 0
    now,                   \* wall clock read by new Date()
    calls,                 \* the analyzeLogsStreaming calls that have not returned
    returned,              \* the call that returned last, and how it returned
    timers,                \* pending setTimeout callbacks of handleApprove, oldest first
    approvals,             \* handleApprove invocations so far
    eventsRead,            \* stream events read so far, over all calls
    limits,                \* how far the environment goes: see Limits
    script,                \* the events of the response body under study
    body,                  \* the bytes of that body
    delivered,             \* bytes of that body read() has handed over so far
    decoderPending,        \* TextDecoder: bytes of an incomplete character
    buffer,                \* analyzeLogsStreaming: let buffer
    dispatched,            \* callbacks analyzeLogsStreaming has invoked, in order
    streamClosed,          \* read() has reported done
    cutInDelimiter,        \* some chunk ended between the two newlines of a delimiter
    isLogGenPaused,        \* App: useState(false), the Pause Logs button
    atPause                \* the incident statuses when the generator was paused

vars == <<logs, systemStatus, incidents, isProcessing, logContextSize,
          currentScenario, scenarioMessageIndex, now, calls, returned, timers,
          approvals, eventsRead, limits, script, body, delivered, decoderPending,
          buffer, dispatched, streamClosed, cutInDelimiter, isLogGenPaused,
          atPause>>

parserVars == <<script, body, delivered, decoderPending, buffer, dispatched,
                streamClosed, cutInDelimiter>>

generator == <<currentScenario, scenarioMessageIndex>>

pause == <<isLogGenPaused, atPause>>

----------------------------------------------------------------------------
(* Bounds of the model *)

MaxIncidents == 3      \* forced interval ticks
MaxNormalTicks == 0    \* non-forced interval ticks
MaxStreamEvents == 1   \* stream events read, over all calls
MaxApprovals == 1      \* handleApprove invocations
NumScenarios == 1      \* catalog entries the generator draws from
MaxEvents == 2         \* events of a response body given to the read loop
MaxForcedCalls == 6    \* generateLog(true) calls when the generator is studied
MaxNormalCalls == 2    \* generateLog(false) calls when the generator is studied
MaxPicks == 2          \* catalog entries drawn from when the generator is studied
MaxContextSize == 2    \* largest small window size saved in the settings
MaxWindowErrors == 3   \* forced ticks when the context window is studied
MaxWindowNormal == 3   \* non-forced ticks when the context window is studied
MaxTraceIncidents == 2 \* forced ticks when the traces of an analysis are studied
MaxTraceEvents == 4    \* stream events read when the traces of an analysis are studied
MaxRemediationIncidents == 2 \* forced ticks when repeated approvals are studied
MaxRemediationApprovals == 2 \* approve clicks when repeated approvals are studied
MaxCapTicks == 2       \* non-forced ticks on a log list one record short of the cap

\* The environment of a specification: what it may do at most
Limits(incidentCount, normalTicks, streamEvents, approvalCount, scenarios) ==
    [incidents |-> incidentCount, normalTicks |-> normalTicks,
     streamEvents |-> streamEvents, approvals |-> approvalCount,
     scenarios |-> scenarios]

(* Program constants *)

LogCap == 500
DefaultContextSize == 15
ScenarioLen == 4

----------------------------------------------------------------------------
(* types.ts *)

INFO == "INFO"
WARN == "WARN"
ERROR == "ERROR"

HEALTHY == "HEALTHY"
ANALYZING_SYSTEM == "ANALYZING"
INCIDENT_DETECTED == "INCIDENT_DETECTED"
REMEDIATING == "REMEDIATING"

PENDING == "PENDING"
ANALYZING == "ANALYZING"
ANALYZED == "ANALYZED"
RESOLVED == "RESOLVED"
IGNORED == "IGNORED"

IncidentStatus == {PENDING, ANALYZING, ANALYZED, RESOLVED, IGNORED}

----------------------------------------------------------------------------
(* logGenerator.ts *)

\* The first entries of the catalog: target pod and suggested tool.
ScenarioCatalog ==
    << [targetPod |-> "payment-service-7d9cf", suggestedTool |-> "scale_deployment"],
       [targetPod |-> "auth-service-5f8b2", suggestedTool |-> "rollback_deployment"],
       [targetPod |-> "order-service-9a4bc", suggestedTool |-> "restart_pod"],
       [targetPod |-> "notification-service-4f1gh", suggestedTool |-> "delete_pod"] >>

CRITICAL_SCENARIOS == 1..limits.scenarios

ALL_PODS == {"frontend-proxy-2a1c9"}

Message(kind, scenario, index, tool) ==
    [kind |-> kind, scenario |-> scenario, index |-> index, tool |-> tool]

LogEntry(timestamp, level, pod, message) ==
    [timestamp |-> timestamp, level |-> level, pod |-> pod, message |-> message]

\* A faulty variant of generateLog: the cursor is reset one call too late
generateLogLateReset(forceError, pick, pod, warn, cur, idx, timestamp) ==
    IF forceError
    THEN LET scenario == IF cur = 0 THEN pick ELSE cur
             i == IF cur = 0 THEN 0 ELSE idx
             message == Message("scenario", scenario, i, "")
             next == i + 1
             entry == LogEntry(timestamp, ERROR,
                               ScenarioCatalog[scenario].targetPod, message)
         IN  IF next > ScenarioLen
             THEN [log |-> entry, currentScenario |-> 0, scenarioMessageIndex |-> 0]
             ELSE [log |-> entry, currentScenario |-> scenario,
                   scenarioMessageIndex |-> next]
    ELSE [log |-> LogEntry(timestamp, IF warn THEN WARN ELSE INFO, pod,
                           Message(IF warn THEN "warning" ELSE "normal", 0, 0, "")),
          currentScenario |-> cur, scenarioMessageIndex |-> idx]

\* A faulty variant of generateLog: after the last message the index is reset
\* but the scenario is kept
generateLogKeepsScenario(forceError, pick, pod, warn, cur, idx, timestamp) ==
    IF forceError
    THEN LET scenario == IF cur = 0 THEN pick ELSE cur
             i == IF cur = 0 THEN 0 ELSE idx
             message == Message("scenario", scenario, i, "")
             next == i + 1
             entry == LogEntry(timestamp, ERROR,
                               ScenarioCatalog[scenario].targetPod, message)
         IN  IF next >= ScenarioLen
             THEN [log |-> entry, currentScenario |-> scenario,
                   scenarioMessageIndex |-> 0]
             ELSE [log |-> entry, currentScenario |-> scenario,
                   scenarioMessageIndex |-> next]
    ELSE [log |-> LogEntry(timestamp, IF warn THEN WARN ELSE INFO, pod,
                           Message(IF warn THEN "warning" ELSE "normal", 0, 0, "")),
          currentScenario |-> cur, scenarioMessageIndex |-> idx]

\* A faulty variant of generateLog: a scenario that is partly emitted goes on
\* in a call that is not forced
generateLogScenarioSticky(forceError, pick, pod, warn, cur, idx, timestamp) ==
    IF forceError \/ cur # 0
    THEN LET scenario == IF cur = 0 THEN pick ELSE cur
             i == IF cur = 0 THEN 0 ELSE idx
             message == Message("scenario", scenario, i, "")
             next == i + 1
             entry == LogEntry(timestamp, ERROR,
                               ScenarioCatalog[scenario].targetPod, message)
         IN  IF next >= ScenarioLen
             THEN [log |-> entry, currentScenario |-> 0, scenarioMessageIndex |-> 0]
             ELSE [log |-> entry, currentScenario |-> scenario,
                   scenarioMessageIndex |-> next]
    ELSE [log |-> LogEntry(timestamp, IF warn THEN WARN ELSE INFO, pod,
                           Message(IF warn THEN "warning" ELSE "normal", 0, 0, "")),
          currentScenario |-> cur, scenarioMessageIndex |-> idx]

\* A faulty variant of generateLog: a call that is not forced abandons the
\* active scenario
generateLogNormalAbandons(forceError, pick, pod, warn, cur, idx, timestamp) ==
    IF forceError
    THEN LET scenario == IF cur = 0 THEN pick ELSE cur
             i == IF cur = 0 THEN 0 ELSE idx
             message == Message("scenario", scenario, i, "")
             next == i + 1
             entry == LogEntry(timestamp, ERROR,
                               ScenarioCatalog[scenario].targetPod, message)
         IN  IF next >= ScenarioLen
             THEN [log |-> entry, currentScenario |-> 0, scenarioMessageIndex |-> 0]
             ELSE [log |-> entry, currentScenario |-> scenario,
                   scenarioMessageIndex |-> next]
    ELSE [log |-> LogEntry(timestamp, IF warn THEN WARN ELSE INFO, pod,
                           Message(IF warn THEN "warning" ELSE "normal", 0, 0, "")),
          currentScenario |-> 0, scenarioMessageIndex |-> 0]

\* generateLog(forceError) with the scenario drawn at line 299 given as pick,
\* the pod and the level of a normal record given as pod and warn.
\* The result is the record and the cursor after the call.
generateLog(forceError, pick, pod, warn, cur, idx, timestamp) ==
    IF forceError
    THEN LET scenario == IF cur = 0 THEN pick ELSE cur
             i == IF cur = 0 THEN 0 ELSE idx
             message == Message("scenario", scenario, i, "")
             next == i + 1
             entry == LogEntry(timestamp, ERROR,
                               ScenarioCatalog[scenario].targetPod, message)
         IN  IF next >= ScenarioLen
             THEN [log |-> entry, currentScenario |-> 0, scenarioMessageIndex |-> 0]
             ELSE [log |-> entry, currentScenario |-> scenario,
                   scenarioMessageIndex |-> next]
    ELSE [log |-> LogEntry(timestamp, IF warn THEN WARN ELSE INFO, pod,
                           Message(IF warn THEN "warning" ELSE "normal", 0, 0, "")),
          currentScenario |-> cur, scenarioMessageIndex |-> idx]

----------------------------------------------------------------------------
(* Sequence helpers *)

\* Array.prototype.slice(-n)
SliceLast(s, n) ==
    IF n = 0 THEN s   \* slice(-0) is slice(0): the whole array
    ELSE IF Len(s) <= n THEN s ELSE SubSeq(s, Len(s) - n + 1, Len(s))

\* A faulty variant of FindPending: the last PENDING incident instead of the first
FindPendingLast(incs) ==
    IF \E k \in 1..Len(incs) : incs[k].status = PENDING
    THEN CHOOSE k \in 1..Len(incs) :
            /\ incs[k].status = PENDING
            /\ \A j \in (k + 1)..Len(incs) : incs[j].status # PENDING
    ELSE 0

\* Array.prototype.find: the index of the first PENDING incident, 0 if none
FindPending(incs) ==
    IF \E k \in 1..Len(incs) : incs[k].status = PENDING
    THEN CHOOSE k \in 1..Len(incs) :
            /\ incs[k].status = PENDING
            /\ \A j \in 1..(k - 1) : incs[j].status # PENDING
    ELSE 0

\* incidents.find(i => i.id === incidentId): its index, 0 if none
FindById(incs, incidentId) ==
    IF \E k \in 1..Len(incs) : incs[k].id = incidentId
    THEN CHOOSE k \in 1..Len(incs) :
            /\ incs[k].id = incidentId
            /\ \A j \in 1..(k - 1) : incs[j].id # incidentId
    ELSE 0

----------------------------------------------------------------------------
(* App.tsx: the queue effect *)

NewCall(incidentId) ==
    [id |-> incidentId, phase |-> "fetching",
     thinkingBuffer |-> << >>, contentBuffer |-> << >>, callbacks |-> << >>,
     stream |-> << >>]

\* processQueue on the rendered incidents, isProcessing and systemStatus:
\* the state after its setState calls, and the call it starts.
processQueue(incs, proc, status, cls) ==
    LET k == FindPending(incs) IN
    IF proc \/ k = 0
    THEN [incidents |-> incs, isProcessing |-> proc, systemStatus |-> status,
          calls |-> cls]
    ELSE LET pendingIncident == incs[k] IN
         [incidents |-> [n \in 1..Len(incs) |->
              LET i == incs[n] IN IF i.id = pendingIncident.id
                         THEN [i EXCEPT !.status = ANALYZING] ELSE i],
          isProcessing |-> TRUE,
          systemStatus |-> IF status = INCIDENT_DETECTED THEN status
                           ELSE ANALYZING_SYSTEM,
          calls |-> Append(cls, NewCall(pendingIncident.id))]

\* The render that follows a handler which set incidents or isProcessing.
Render(incs, proc, status, cls) ==
    LET r == processQueue(incs, proc, status, cls) IN
    /\ incidents' = r.incidents
    /\ isProcessing' = r.isProcessing
    /\ systemStatus' = r.systemStatus
    /\ calls' = r.calls

----------------------------------------------------------------------------
(* App.tsx: log generation *)

\* A faulty variant of handleCriticalLog: the new incident is put first
handleCriticalLogNewestFirst(incs, log, logsRef, size) ==
    <<[id |-> Len(incs) + 1,
       timestamp |-> log.timestamp,
       triggerLog |-> log,
       contextLogs |-> Append(SliceLast(logsRef, size), log),
       status |-> PENDING,
       proposal |-> << >>,
       thinking |-> << >>,
       analysis |-> << >>]>> \o incs

\* handleCriticalLog: the incident list after the append
handleCriticalLog(incs, log, logsRef, size) ==
    Append(incs,
           [id |-> Len(incs) + 1,
            timestamp |-> log.timestamp,
            triggerLog |-> log,
            contextLogs |-> Append(SliceLast(logsRef, size), log),
            status |-> PENDING,
            proposal |-> << >>,
            thinking |-> << >>,
            analysis |-> << >>])

\* A faulty variant of Tick: the interval is not cleared when the generator
\* is paused
TickIgnoresPause(shouldTriggerError, pick, pod, warn) ==
    /\ IF shouldTriggerError THEN Len(incidents) < limits.incidents
       ELSE now - Len(incidents) < limits.normalTicks
    /\ now' = now + 1
    /\ LET g == generateLog(shouldTriggerError, pick, pod, warn,
                            currentScenario, scenarioMessageIndex, now')
           newLog == g.log
           updated == Append(logs, newLog)
       IN  /\ currentScenario' = g.currentScenario
           /\ scenarioMessageIndex' = g.scenarioMessageIndex
           /\ logs' = IF Len(updated) > LogCap THEN SliceLast(updated, LogCap)
                      ELSE updated
           /\ IF newLog.level = ERROR
              THEN Render(handleCriticalLog(incidents, newLog, logs, logContextSize),
                          isProcessing, systemStatus, calls)
              ELSE UNCHANGED <<incidents, isProcessing, systemStatus, calls>>
    /\ UNCHANGED <<logContextSize, limits, pause, parserVars, returned, timers, approvals,
                   eventsRead>>

\* One callback of the interval of startLogStream
Tick(shouldTriggerError, pick, pod, warn) ==
    /\ ~isLogGenPaused
    /\ IF shouldTriggerError THEN Len(incidents) < limits.incidents
       ELSE now - Len(incidents) < limits.normalTicks
    /\ now' = now + 1
    /\ LET g == generateLog(shouldTriggerError, pick, pod, warn,
                            currentScenario, scenarioMessageIndex, now')
           newLog == g.log
           updated == Append(logs, newLog)
       IN  /\ currentScenario' = g.currentScenario
           /\ scenarioMessageIndex' = g.scenarioMessageIndex
           /\ logs' = IF Len(updated) > LogCap THEN SliceLast(updated, LogCap)
                      ELSE updated
           /\ IF newLog.level = ERROR
              THEN Render(handleCriticalLog(incidents, newLog, logs, logContextSize),
                          isProcessing, systemStatus, calls)
              ELSE UNCHANGED <<incidents, isProcessing, systemStatus, calls>>
    /\ UNCHANGED <<logContextSize, limits, pause, parserVars, returned, timers, approvals,
                   eventsRead>>

\* The sizes saved from the settings page: its number input hands over
\* whatever number is typed, the default, and small sizes down to 0
ContextSizes == 0..MaxContextSize \cup {DefaultContextSize}

\* handleLogContextSizeChange: handleCriticalLog and the interval are
\* re-created with the new size
handleLogContextSizeChange(size) ==
    /\ size # logContextSize
    /\ logContextSize' = size
    /\ UNCHANGED <<logs, systemStatus, incidents, isProcessing, limits, pause, parserVars,
                   generator, now, calls, returned, timers, approvals, eventsRead>>

\* The Pause Logs / Resume Logs button: startLogStream is re-created, its
\* effect clears the interval and starts a new one only when not paused
ClickPause ==
    /\ isLogGenPaused' = ~isLogGenPaused
    /\ atPause' = IF isLogGenPaused THEN << >>
                  ELSE [k \in 1..Len(incidents) |-> incidents[k].status]
    /\ UNCHANGED <<logs, systemStatus, incidents, isProcessing, logContextSize,
                   limits, parserVars, generator, now, calls, returned, timers,
                   approvals, eventsRead>>

----------------------------------------------------------------------------
(* App.tsx: the callbacks processQueue hands to analyzeLogsStreaming.      *)
(* Each gives the incident list after its setIncidents.                    *)

\* The text of a thinking or content event is named by the event's position
\* among the events read.
Fragment == ToString(eventsRead + 1)

\* What a done event's payload can carry as proposal
LlmProposals ==
    { [toolName |-> "scale_deployment", args |-> [pod |-> "x", namespace |-> "prod"],
       reason |-> "y"],
      [toolName |-> "rollback_deployment", args |-> [pod |-> "x", namespace |-> "prod"],
       reason |-> "y"] }

FallbackProposal(i) ==
    [toolName |-> "restart_pod",
     args |-> [pod |-> i.triggerLog.pod, namespace |-> "default"],
     reason |-> "Automated fallback: Analysis failed but error persists."]

AnalysisFailedText == <<"Analysis failed. Showing fallback.">>

\* A faulty variant of onThinking: the id is not compared, every incident gets
\* the trace
onThinkingEveryIncident(incs, incidentId, thinkingBuffer) ==
    [n \in 1..Len(incs) |-> [incs[n] EXCEPT !.thinking = thinkingBuffer]]

onThinking(incs, incidentId, thinkingBuffer) ==
    [n \in 1..Len(incs) |->
        LET i == incs[n] IN IF i.id = incidentId
                   THEN [i EXCEPT !.thinking = thinkingBuffer] ELSE i]

onContent(incs, incidentId, contentBuffer) ==
    [n \in 1..Len(incs) |->
        LET i == incs[n] IN IF i.id = incidentId
                   THEN [i EXCEPT !.analysis = contentBuffer] ELSE i]

onDone(incs, incidentId, proposal, thinkingBuffer, contentBuffer) ==
    [n \in 1..Len(incs) |->
        LET i == incs[n] IN IF i.id = incidentId
                   THEN [i EXCEPT !.status = ANALYZED,
                                  !.proposal = <<proposal>>,
                                  !.thinking = thinkingBuffer,
                                  !.analysis = contentBuffer]
                   ELSE i]

\* A faulty variant of onError: the fallback names a fixed pod, not the trigger's
onErrorFixedPod(incs, incidentId) ==
    [n \in 1..Len(incs) |->
        LET i == incs[n] IN IF i.id = incidentId
                   THEN [i EXCEPT !.status = ANALYZED,
                                  !.proposal = <<[FallbackProposal(i) EXCEPT
                                                    !.args.pod = "kube-controller"]>>,
                                  !.analysis = AnalysisFailedText]
                   ELSE i]

onError(incs, incidentId) ==
    [n \in 1..Len(incs) |->
        LET i == incs[n] IN IF i.id = incidentId
                   THEN [i EXCEPT !.status = ANALYZED,
                                  !.proposal = <<FallbackProposal(i)>>,
                                  !.analysis = AnalysisFailedText]
                   ELSE i]

----------------------------------------------------------------------------
(* api.ts: analyzeLogsStreaming, one action per await that resumes *)

\* An event of the response stream: its type and what its payload carries
StreamEvent(type, payload) == [type |-> type, payload |-> payload]

\* The calls without the c-th one
Without(cls, c) ==
    [k \in 1..(Len(cls) - 1) |-> IF k < c THEN cls[k] ELSE cls[k + 1]]

\* A faulty variant of Caught: after onError the call goes on reading
CaughtKeepsReading(c, outcome) ==
    /\ Render(onError(incidents, calls[c].id), FALSE, INCIDENT_DETECTED, calls)
    /\ returned' = [id |-> calls[c].id, outcome |-> outcome,
                    callbacks |-> Append(calls[c].callbacks, "onError"),
                    stream |-> calls[c].stream]
    /\ UNCHANGED <<logs, logContextSize, limits, pause, parserVars, generator, now, timers, approvals,
                   eventsRead>>

\* A faulty variant of Caught: the error path leaves isProcessing as it is
CaughtStaysBusy(c, outcome) ==
    /\ Render(onError(incidents, calls[c].id), isProcessing, INCIDENT_DETECTED,
              Without(calls, c))
    /\ returned' = [id |-> calls[c].id, outcome |-> outcome,
                    callbacks |-> Append(calls[c].callbacks, "onError"),
                    stream |-> calls[c].stream]
    /\ UNCHANGED <<logs, logContextSize, limits, pause, parserVars, generator, now, timers, approvals,
                   eventsRead>>

\* The catch block: onError, then the call returns.
Caught(c, outcome) ==
    /\ Render(onError(incidents, calls[c].id), FALSE, INCIDENT_DETECTED,
              Without(calls, c))
    /\ returned' = [id |-> calls[c].id, outcome |-> outcome,
                    callbacks |-> Append(calls[c].callbacks, "onError"),
                    stream |-> calls[c].stream]
    /\ UNCHANGED <<logs, logContextSize, limits, pause, parserVars, generator, now, timers, approvals,
                   eventsRead>>

\* fetch rejects, or resolves with a non-success status or without a body
FetchFails(c, cause) ==
    /\ calls[c].phase = "fetching"
    /\ Caught(c, cause)

\* fetch resolves with a success status and a body
FetchOk(c) ==
    /\ calls[c].phase = "fetching"
    /\ calls' = [calls EXCEPT ![c].phase = "reading"]
    /\ UNCHANGED <<logs, systemStatus, incidents, isProcessing, logContextSize, limits, pause, parserVars,
                   generator, now, returned, timers, approvals, eventsRead>>

\* reader.read() rejects
ReadFails(c) ==
    /\ calls[c].phase = "reading"
    /\ Caught(c, "read_failure")

\* reader.read() resolves with done: the loop ends and the call returns
ReadEnd(c) ==
    /\ calls[c].phase = "reading"
    /\ calls' = Without(calls, c)
    /\ returned' = [id |-> calls[c].id, outcome |-> "closed",
                    callbacks |-> calls[c].callbacks, stream |-> calls[c].stream]
    /\ UNCHANGED <<logs, systemStatus, incidents, isProcessing, logContextSize, limits, pause, parserVars,
                   generator, now, timers, approvals, eventsRead>>

\* reader.read() resolves with a chunk that holds one event
ReadsEvent(c) ==
    /\ calls[c].phase = "reading"
    /\ eventsRead < limits.streamEvents
    /\ eventsRead' = eventsRead + 1
    /\ UNCHANGED <<logs, logContextSize, limits, pause, parserVars, generator, now, returned, timers,
                   approvals>>

\* A faulty variant of ReadThinking: the buffer is overwritten by the chunk
ReadThinkingOverwrites(c, chunk) ==
    /\ ReadsEvent(c)
    /\ LET thinkingBuffer == <<chunk>> IN
       Render(onThinking(incidents, calls[c].id, thinkingBuffer),
              isProcessing, systemStatus,
              [calls EXCEPT ![c].thinkingBuffer = thinkingBuffer,
                            ![c].callbacks = Append(@, "onThinking"),
                            ![c].stream = Append(@, StreamEvent("thinking", chunk))])

\* a thinking event
ReadThinking(c, chunk) ==
    /\ ReadsEvent(c)
    /\ LET thinkingBuffer == Append(calls[c].thinkingBuffer, chunk) IN
       Render(onThinking(incidents, calls[c].id, thinkingBuffer),
              isProcessing, systemStatus,
              [calls EXCEPT ![c].thinkingBuffer = thinkingBuffer,
                            ![c].callbacks = Append(@, "onThinking"),
                            ![c].stream = Append(@, StreamEvent("thinking", chunk))])

\* a content event
ReadContent(c, chunk) ==
    /\ ReadsEvent(c)
    /\ LET contentBuffer == Append(calls[c].contentBuffer, chunk) IN
       Render(onContent(incidents, calls[c].id, contentBuffer),
              isProcessing, systemStatus,
              [calls EXCEPT ![c].contentBuffer = contentBuffer,
                            ![c].callbacks = Append(@, "onContent"),
                            ![c].stream = Append(@, StreamEvent("content", chunk))])

\* a done event with a proposal
ReadDone(c, proposal) ==
    /\ ReadsEvent(c)
    /\ Render(onDone(incidents, calls[c].id, proposal,
                     calls[c].thinkingBuffer, calls[c].contentBuffer),
              FALSE, INCIDENT_DETECTED,
              [calls EXCEPT ![c].callbacks = Append(@, "onDone"),
                            ![c].stream = Append(@, StreamEvent("done", proposal))])

\* an error event
ReadError(c) ==
    /\ ReadsEvent(c)
    /\ Render(onError(incidents, calls[c].id), FALSE, INCIDENT_DETECTED,
              [calls EXCEPT ![c].callbacks = Append(@, "onError"),
                            ![c].stream = Append(@, StreamEvent("error", Fragment))])

\* an event that invokes no callback: no data line, a payload that is not
\* JSON, a done event without proposal, a type that is none of the four
ReadSkipped(c) ==
    /\ ReadsEvent(c)
    /\ calls' = [calls EXCEPT ![c].stream = Append(@, StreamEvent("skipped", Fragment))]
    /\ UNCHANGED <<systemStatus, incidents, isProcessing>>

----------------------------------------------------------------------------
(* App.tsx: actions of the operator *)

\* incidents.filter(i => i.id !== incidentId && i.status === ANALYZED).length > 0
RemainingAnalyzed(incs, incidentId) ==
    \E k \in 1..Len(incs) : incs[k].id # incidentId /\ incs[k].status = ANALYZED

\* A faulty variant of handleApprove: the timer is started for an incident
\* that has no proposal
handleApproveWithoutProposal(incidentId) ==
    /\ approvals < limits.approvals
    /\ approvals' = approvals + 1
    /\ systemStatus' = REMEDIATING
    /\ LET k == FindById(incidents, incidentId) IN
       IF k = 0
       THEN timers' = timers
       ELSE timers' = Append(timers,
                [id |-> incidentId,
                 toolName |-> IF incidents[k].proposal = << >> THEN "undefined"
                              ELSE incidents[k].proposal[1].toolName,
                 remainingAnalyzed |-> RemainingAnalyzed(incidents, incidentId)])
    /\ UNCHANGED <<logs, incidents, isProcessing, logContextSize, limits, pause, parserVars, generator, now,
                   calls, returned, eventsRead>>

\* handleApprove: the timer keeps what its closure reads later, the
\* proposal's tool name and remainingAnalyzed of the rendered incidents.
handleApprove(incidentId) ==
    /\ approvals < limits.approvals
    /\ approvals' = approvals + 1
    /\ systemStatus' = REMEDIATING
    /\ LET k == FindById(incidents, incidentId) IN
       IF k = 0 \/ incidents[k].proposal = << >>
       THEN timers' = timers
       ELSE timers' = Append(timers,
                [id |-> incidentId,
                 toolName |-> incidents[k].proposal[1].toolName,
                 remainingAnalyzed |-> RemainingAnalyzed(incidents, incidentId)])
    /\ UNCHANGED <<logs, incidents, isProcessing, logContextSize, limits, pause, parserVars, generator, now,
                   calls, returned, eventsRead>>

\* A faulty variant of RemediationTimer: the success record is not appended
RemediationTimerSilent ==
    /\ timers # << >>
    /\ logs' = logs
    /\ Render([n \in 1..Len(incidents) |->
                  LET i == incidents[n] IN IF i.id = Head(timers).id
                             THEN [i EXCEPT !.status = RESOLVED] ELSE i],
              isProcessing,
              IF Head(timers).remainingAnalyzed THEN INCIDENT_DETECTED ELSE HEALTHY,
              calls)
    /\ timers' = Tail(timers)
    /\ UNCHANGED <<logContextSize, limits, pause, parserVars, generator, now, returned, approvals,
                   eventsRead>>

\* A faulty variant of RemediationTimer: the system status is left as it is
RemediationTimerKeepsStatus ==
    /\ timers # << >>
    /\ LET t == Head(timers)
           successLog == LogEntry(now, INFO, "kube-controller",
                                  Message("executed", 0, 0, t.toolName))
       IN  /\ logs' = Append(logs, successLog)
           /\ Render([n \in 1..Len(incidents) |->
                         LET i == incidents[n] IN IF i.id = t.id
                                    THEN [i EXCEPT !.status = RESOLVED] ELSE i],
                     isProcessing, systemStatus, calls)
    /\ timers' = Tail(timers)
    /\ UNCHANGED <<logContextSize, limits, pause, parserVars, generator, now, returned, approvals, eventsRead>>

\* The setTimeout callback of handleApprove; equal delays fire in order.
RemediationTimer ==
    /\ timers # << >>
    /\ LET t == Head(timers)
           successLog == LogEntry(now, INFO, "kube-controller",
                                  Message("executed", 0, 0, t.toolName))
       IN  /\ logs' = Append(logs, successLog)
           /\ Render([n \in 1..Len(incidents) |->
                         LET i == incidents[n] IN IF i.id = t.id
                                    THEN [i EXCEPT !.status = RESOLVED] ELSE i],
                     isProcessing,
                     IF t.remainingAnalyzed THEN INCIDENT_DETECTED ELSE HEALTHY,
                     calls)
    /\ timers' = Tail(timers)
    /\ UNCHANGED <<logContextSize, limits, pause, parserVars, generator, now, returned, approvals, eventsRead>>

handleIgnore(incidentId) ==
    /\ Render([n \in 1..Len(incidents) |->
                  LET i == incidents[n] IN IF i.id = incidentId
                             THEN [i EXCEPT !.status = IGNORED] ELSE i],
              isProcessing,
              IF RemainingAnalyzed(incidents, incidentId) THEN systemStatus
              ELSE HEALTHY,
              calls)
    /\ UNCHANGED <<logs, logContextSize, limits, pause, parserVars, generator, now, returned, timers,
                   approvals, eventsRead>>

\* IncidentDashboard renders the Approve and Ignore buttons of an incident
\* only while its status is ANALYZED.
HasButtons(incidentId) ==
    \E k \in 1..Len(incidents) :
        incidents[k].id = incidentId /\ incidents[k].status = ANALYZED

ClickApprove(incidentId) == HasButtons(incidentId) /\ handleApprove(incidentId)

ClickIgnore(incidentId) == HasButtons(incidentId) /\ handleIgnore(incidentId)

\* The handlers called with an id the dashboard offers no button for
CallApprove(incidentId) == ~HasButtons(incidentId) /\ handleApprove(incidentId)

CallIgnore(incidentId) == ~HasButtons(incidentId) /\ handleIgnore(incidentId)

\* 0 is the id of no incident
IncidentIds == 0..limits.incidents

----------------------------------------------------------------------------
(* api.ts: the read loop of analyzeLogsStreaming on a response body.       *)
(* Text is a sequence of characters and a body a sequence of bytes: an     *)
(* ASCII byte is written as its character, U+00E9 is the bytes C3 A9.      *)
(* An optional value is << >> when undefined and <<v>> when it is v.       *)

NL == "\n"
EAcute == "U+00E9"

\* 'event: '
EventPrefix ==
    <<"e", "v", "e", "n", "t", ":", " ">>

\* 'data: '
DataPrefix ==
    <<"d", "a", "t", "a", ":", " ">>

\* 'thinking'
ThinkingType ==
    <<"t", "h", "i", "n", "k", "i", "n", "g">>

\* 'content'
ContentType ==
    <<"c", "o", "n", "t", "e", "n", "t">>

\* 'done'
DoneType ==
    <<"d", "o", "n", "e">>

\* 'error'
ErrorType ==
    <<"e", "r", "r", "o", "r">>

\* 'message'
MessageType ==
    <<"m", "e", "s", "s", "a", "g", "e">>

\* 'ping', a type the switch has no case for
PingType ==
    <<"p", "i", "n", "g">>

\* the comment line ': ping'
CommentLine ==
    <<":", " ", "p", "i", "n", "g">>

\* {"content":"<U+00E9>"}
JsonThinking ==
    <<"{", "\"", "c", "o", "n", "t", "e", "n", "t", "\"", ":", "\"",
      EAcute, "\"", "}">>

\* {"content":"B"}
JsonContent ==
    <<"{", "\"", "c", "o", "n", "t", "e", "n", "t", "\"", ":", "\"", "B",
      "\"", "}">>

\* {"content":"E"}
JsonError ==
    <<"{", "\"", "c", "o", "n", "t", "e", "n", "t", "\"", ":", "\"", "E",
      "\"", "}">>

\* {"content":""}
JsonErrorEmpty ==
    <<"{", "\"", "c", "o", "n", "t", "e", "n", "t", "\"", ":", "\"", "\"",
      "}">>

\* {"proposal":{"toolName":"t","args":{"k":1},"reason":"r"}}
JsonProposalFull ==
    <<"{", "\"", "p", "r", "o", "p", "o", "s", "a", "l", "\"", ":", "{",
      "\"", "t", "o", "o", "l", "N", "a", "m", "e", "\"", ":", "\"", "t",
      "\"", ",", "\"", "a", "r", "g", "s", "\"", ":", "{", "\"", "k", "\"",
      ":", "1", "}", ",", "\"", "r", "e", "a", "s", "o", "n", "\"", ":",
      "\"", "r", "\"", "}", "}">>

\* {"proposal":{}}
JsonProposalEmpty ==
    <<"{", "\"", "p", "r", "o", "p", "o", "s", "a", "l", "\"", ":", "{", "}",
      "}">>

\* {}
JsonEmptyObject ==
    <<"{", "}">>

\* {"content":   (no JSON text)
JsonCutShort ==
    <<"{", "\"", "c", "o", "n", "t", "e", "n", "t", "\"", ":">>

\* 'scale_deployment'
DefaultToolName ==
    <<"s", "c", "a", "l", "e", "_", "d", "e", "p", "l", "o", "y", "m", "e",
      "n", "t">>

\* 'Unknown error'
UnknownError ==
    <<"U", "n", "k", "n", "o", "w", "n", " ", "e", "r", "r", "o", "r">>

\* Events the loop passes over: no event: line, type message, a type with no
\* case, no data: line, done without proposal
PassedOverKinds ==
    {"untyped", "messageType", "otherType", "noData", "doneBare"}

\* Error events: content 'E', content '', no content property
ErrorKinds ==
    {"error", "errorEmpty", "errorMissing"}

\* The events a body is made of
EventKinds ==
    {"thinking", "content", "doneFull", "doneEmpty", "doneBare", "error",
     "malformed", "comment"}

EventText(kind) ==
    CASE kind = "thinking" ->
            EventPrefix \o ThinkingType \o <<NL>> \o DataPrefix \o JsonThinking
      [] kind = "content" ->
            EventPrefix \o ContentType \o <<NL>> \o DataPrefix \o JsonContent
      [] kind = "doneFull" ->
            EventPrefix \o DoneType \o <<NL>> \o DataPrefix \o JsonProposalFull
      [] kind = "doneEmpty" ->
            EventPrefix \o DoneType \o <<NL>> \o DataPrefix \o JsonProposalEmpty
      [] kind = "doneBare" ->
            EventPrefix \o DoneType \o <<NL>> \o DataPrefix \o JsonEmptyObject
      [] kind = "error" ->
            EventPrefix \o ErrorType \o <<NL>> \o DataPrefix \o JsonError
      [] kind = "malformed" ->
            EventPrefix \o ContentType \o <<NL>> \o DataPrefix \o JsonCutShort
      [] kind = "comment" -> <<NL>> \o CommentLine
      [] kind = "untyped" -> DataPrefix \o JsonContent
      [] kind = "messageType" ->
            EventPrefix \o MessageType \o <<NL>> \o DataPrefix \o JsonContent
      [] kind = "otherType" ->
            EventPrefix \o PingType \o <<NL>> \o DataPrefix \o JsonContent
      [] kind = "noData" -> EventPrefix \o ContentType
      [] kind = "errorEmpty" ->
            EventPrefix \o ErrorType \o <<NL>> \o DataPrefix \o JsonErrorEmpty
      [] kind = "errorMissing" ->
            EventPrefix \o ErrorType \o <<NL>> \o DataPrefix \o JsonEmptyObject

\* TextDecoder.decode(value, {stream: true}) on the bytes held back followed
\* by value: the complete characters, and the bytes of an incomplete one
IsLeadOrAscii(byte) == byte # "A9"

decode(bytes) ==
    LET held == bytes # << >> /\ bytes[Len(bytes)] = "C3"
        whole == IF held THEN SubSeq(bytes, 1, Len(bytes) - 1) ELSE bytes
        leads == SelectSeq(whole, IsLeadOrAscii)
    IN  [text |-> [k \in 1..Len(leads) |->
                      IF leads[k] = "C3" THEN EAcute ELSE leads[k]],
         pending |-> IF held THEN <<"C3">> ELSE << >>]

\* String.prototype.indexOf, from 1; 0 when there is no occurrence
indexOf(text, separator) ==
    LET hits == {k \in 1..(Len(text) - Len(separator) + 1) :
                    SubSeq(text, k, k + Len(separator) - 1) = separator}
    IN  IF hits = {} THEN 0 ELSE CHOOSE k \in hits : \A j \in hits : k <= j

\* String.prototype.split with a non-empty separator
RECURSIVE split(_, _)
split(text, separator) ==
    LET k == indexOf(text, separator) IN
    IF k = 0 THEN <<text>>
    ELSE <<SubSeq(text, 1, k - 1)>>
         \o split(SubSeq(text, k + Len(separator), Len(text)), separator)

\* Array.prototype.join
RECURSIVE join(_, _)
join(pieces, separator) ==
    IF Len(pieces) = 1 THEN pieces[1]
    ELSE pieces[1] \o separator \o join(Tail(pieces), separator)

\* UTF-8 of a text, as the backend sends it
Utf8(text) == join(split(text, <<EAcute>>), <<"C3", "A9">>)

\* The body of a script: every event is followed by a blank line
RECURSIVE BodyOf(_)
BodyOf(events) ==
    IF events = << >> THEN << >>
    ELSE Utf8(EventText(Head(events))) \o <<NL, NL>> \o BodyOf(Tail(events))

startsWith(text, prefix) ==
    Len(text) >= Len(prefix) /\ SubSeq(text, 1, Len(prefix)) = prefix

\* String.prototype.slice(start)
slice(text, start) == SubSeq(text, start + 1, Len(text))

\* !event.trim()
IsBlank(text) == \A k \in 1..Len(text) : text[k] \in {" ", NL, "\t", "\r"}

\* JSON.parse on the payload texts of the bodies studied: <<value>>, or << >>
\* when it throws.  A parsed object gives its content and proposal properties.
JSONparse(text) ==
    CASE text = JsonThinking ->
            <<[content |-> <<(<<EAcute>>)>>, proposal |-> << >>]>>
      [] text = JsonContent ->
            <<[content |-> <<(<<"B">>)>>, proposal |-> << >>]>>
      [] text = JsonError ->
            <<[content |-> <<(<<"E">>)>>, proposal |-> << >>]>>
      [] text = JsonErrorEmpty ->
            <<[content |-> <<(<< >>)>>, proposal |-> << >>]>>
      [] text = JsonProposalFull ->
            <<[content |-> << >>,
               proposal |-> <<[toolName |-> <<(<<"t">>)>>,
                               args |-> <<{<<"k", 1>>}>>,
                               reason |-> <<(<<"r">>)>>]>>]>>
      [] text = JsonProposalEmpty ->
            <<[content |-> << >>,
               proposal |-> <<[toolName |-> << >>, args |-> << >>,
                               reason |-> << >>]>>]>>
      [] text = JsonEmptyObject -> <<[content |-> << >>, proposal |-> << >>]>>
      [] OTHER -> << >>

\* a || b on an optional string: undefined and '' give b
OrString(a, b) == IF a = << >> \/ a = <<(<< >>)>> THEN b ELSE a[1]

\* a || b on an optional object
OrObject(a, b) == IF a = << >> THEN b ELSE a[1]

Callback(name, text, proposal) ==
    [callback |-> name, text |-> text, proposal |-> proposal]

\* A faulty variant of IncidentToolCall: missing fields get no default
IncidentToolCallAsSent(proposal) ==
    [toolName |-> OrString(proposal.toolName, << >>),
     args |-> OrObject(proposal.args, {}),
     reason |-> OrString(proposal.reason, << >>)]

\* The proposal the done case builds
IncidentToolCall(proposal) ==
    [toolName |-> OrString(proposal.toolName, DefaultToolName),
     args |-> OrObject(proposal.args, {}),
     reason |-> OrString(proposal.reason, << >>)]

\* The lines of an event: the last event: line and the last data: line
RECURSIVE ScanLines(_, _, _)
ScanLines(lines, eventType, data) ==
    IF lines = << >> THEN [eventType |-> eventType, data |-> data]
    ELSE IF startsWith(Head(lines), EventPrefix)
         THEN ScanLines(Tail(lines), slice(Head(lines), 7), data)
         ELSE IF startsWith(Head(lines), DataPrefix)
              THEN ScanLines(Tail(lines), eventType, slice(Head(lines), 6))
              ELSE ScanLines(Tail(lines), eventType, data)

\* A faulty variant of Switch: the error case passes the content as it is,
\* '' when it is empty or absent
SwitchErrorAsSent(eventType, parsed) ==
    CASE eventType = ThinkingType ->
            <<Callback("onThinking", OrString(parsed.content, << >>), << >>)>>
      [] eventType = ContentType ->
            <<Callback("onContent", OrString(parsed.content, << >>), << >>)>>
      [] eventType = DoneType ->
            IF parsed.proposal = << >> THEN << >>
            ELSE <<Callback("onDone", << >>,
                            <<IncidentToolCall(parsed.proposal[1])>>)>>
      [] eventType = ErrorType ->
            <<Callback("onError", OrString(parsed.content, << >>), << >>)>>
      [] OTHER -> << >>

\* The switch on eventType: the callback a parsed payload invokes
Switch(eventType, parsed) ==
    CASE eventType = ThinkingType ->
            <<Callback("onThinking", OrString(parsed.content, << >>), << >>)>>
      [] eventType = ContentType ->
            <<Callback("onContent", OrString(parsed.content, << >>), << >>)>>
      [] eventType = DoneType ->
            IF parsed.proposal = << >> THEN << >>
            ELSE <<Callback("onDone", << >>,
                            <<IncidentToolCall(parsed.proposal[1])>>)>>
      [] eventType = ErrorType ->
            <<Callback("onError", OrString(parsed.content, UnknownError), << >>)>>
      [] OTHER -> << >>

\* A faulty variant of DispatchEvent: a payload that does not parse is
\* reported through onError
DispatchEventReportsParse(event) ==
    IF IsBlank(event) THEN << >>
    ELSE LET f == ScanLines(split(event, <<NL>>), MessageType, << >>)
             parsed == JSONparse(f.data)
         IN  IF f.data = << >> THEN << >>
             ELSE IF parsed = << >>
                  THEN <<Callback("onError", UnknownError, << >>)>>
                  ELSE Switch(f.eventType, parsed[1])

\* A faulty variant of DispatchEvent: an event without event: line is taken
\* for a content event
DispatchEventDefaultContent(event) ==
    IF IsBlank(event) THEN << >>
    ELSE LET f == ScanLines(split(event, <<NL>>), ContentType, << >>)
             parsed == JSONparse(f.data)
         IN  IF f.data = << >> \/ parsed = << >> THEN << >>
             ELSE Switch(f.eventType, parsed[1])

\* The body of the loop over events: the callbacks one event invokes
DispatchEvent(event) ==
    IF IsBlank(event) THEN << >>
    ELSE LET f == ScanLines(split(event, <<NL>>), MessageType, << >>)
             parsed == JSONparse(f.data)
         IN  IF f.data = << >> \/ parsed = << >> THEN << >>
             ELSE Switch(f.eventType, parsed[1])

RECURSIVE DispatchEvents(_)
DispatchEvents(events) ==
    IF events = << >> THEN << >>
    ELSE DispatchEvent(Head(events)) \o DispatchEvents(Tail(events))

\* A faulty variant of ProcessChunk: the incomplete trailing text is dropped
ProcessChunkNoCarry(buf, text) ==
    LET events == split(text, <<NL, NL>>) IN
    [buffer |-> events[Len(events)],
     callbacks |-> DispatchEvents(SubSeq(events, 1, Len(events) - 1))]

\* One turn of the read loop on a chunk: the buffer kept and the callbacks
ProcessChunk(buf, text) ==
    LET events == split(buf \o text, <<NL, NL>>) IN
    [buffer |-> events[Len(events)],
     callbacks |-> DispatchEvents(SubSeq(events, 1, Len(events) - 1))]

\* read() resolves with the next size bytes of the body
ReadChunk(size) ==
    /\ ~streamClosed
    /\ size \in 1..(Len(body) - delivered)
    /\ LET d == decode(decoderPending \o SubSeq(body, delivered + 1, delivered + size))
           r == ProcessChunk(buffer, d.text)
       IN  /\ decoderPending' = d.pending
           /\ buffer' = r.buffer
           /\ dispatched' = dispatched \o r.callbacks
    /\ delivered' = delivered + size
    /\ cutInDelimiter' =
          (\/ cutInDelimiter
           \/ /\ delivered' < Len(body)
              /\ body[delivered'] = NL
              /\ body[delivered' + 1] = NL)
    /\ UNCHANGED <<script, body, streamClosed>>
    /\ UNCHANGED <<logs, systemStatus, incidents, isProcessing, logContextSize,
                   limits, pause, generator, now, calls, returned, timers, approvals,
                   eventsRead>>

\* A faulty variant of ReadClosed: what is left in the buffer is dispatched
\* when the stream closes
ReadClosedFlushes ==
    /\ ~streamClosed
    /\ delivered = Len(body)
    /\ streamClosed' = TRUE
    /\ dispatched' = dispatched \o DispatchEvent(buffer)
    /\ UNCHANGED <<script, body, delivered, decoderPending, buffer, cutInDelimiter>>
    /\ UNCHANGED <<logs, systemStatus, incidents, isProcessing, logContextSize,
                   limits, pause, generator, now, calls, returned, timers, approvals,
                   eventsRead>>

\* read() resolves with done: the loop is left and the call returns
ReadClosed ==
    /\ ~streamClosed
    /\ delivered = Len(body)
    /\ streamClosed' = TRUE
    /\ UNCHANGED <<script, body, delivered, decoderPending, buffer, dispatched,
                   cutInDelimiter>>
    /\ UNCHANGED <<logs, systemStatus, incidents, isProcessing, logContextSize,
                   limits, pause, generator, now, calls, returned, timers, approvals,
                   eventsRead>>

----------------------------------------------------------------------------

\* The state after the component is mounted
Mounted ==
    /\ logs = << >>
    /\ systemStatus = HEALTHY
    /\ incidents = << >>
    /\ isProcessing = FALSE
    /\ logContextSize = DefaultContextSize
    /\ currentScenario = 0
    /\ scenarioMessageIndex = 0
    /\ now = 0
    /\ calls = << >>
    /\ returned = [id |-> 0, outcome |-> "", callbacks |-> << >>, stream |-> << >>]
    /\ timers = << >>
    /\ approvals = 0
    /\ eventsRead = 0
    /\ delivered = 0
    /\ decoderPending = << >>
    /\ buffer = << >>
    /\ dispatched = << >>
    /\ streamClosed = FALSE
    /\ cutInDelimiter = FALSE
    /\ isLogGenPaused = FALSE
    /\ atPause = << >>

Init ==
    /\ Mounted
    /\ script = << >>
    /\ body = << >>
    /\ limits = Limits(MaxIncidents, MaxNormalTicks, MaxStreamEvents, MaxApprovals,
                       NumScenarios)

Next ==
    \/ \E f \in BOOLEAN, pick \in CRITICAL_SCENARIOS, pod \in ALL_PODS,
          warn \in BOOLEAN : Tick(f, pick, pod, warn)
    \/ \E c \in 1..Len(calls), cause \in {"network", "http_status", "no_body"} :
          FetchFails(c, cause)
    \/ \E c \in 1..Len(calls) : FetchOk(c)
    \/ \E c \in 1..Len(calls) : ReadFails(c)
    \/ \E c \in 1..Len(calls) : ReadEnd(c)
    \/ \E c \in 1..Len(calls) : ReadThinking(c, Fragment)
    \/ \E c \in 1..Len(calls) : ReadContent(c, Fragment)
    \/ \E c \in 1..Len(calls), proposal \in LlmProposals : ReadDone(c, proposal)
    \/ \E c \in 1..Len(calls) : ReadError(c)
    \/ \E c \in 1..Len(calls) : ReadSkipped(c)
    \/ \E incidentId \in IncidentIds : ClickApprove(incidentId)
    \/ \E incidentId \in IncidentIds : ClickIgnore(incidentId)
    \/ RemediationTimer

\* The application as its dashboard drives it
Spec == Init /\ [][Next]_vars

\* The handlers as the contract of the queue: any id, any status
NextDirect ==
    \/ Next
    \/ \E incidentId \in IncidentIds : CallApprove(incidentId)
    \/ \E incidentId \in IncidentIds : CallIgnore(incidentId)

SpecDirect == Init /\ [][NextDirect]_vars

\* setTimeout callbacks that are due are run
SpecFair == Spec /\ WF_vars(RemediationTimer)

\* One call of analyzeLogsStreaming on each body of at most MaxEvents events,
\* cut into chunks in every way
InitParser ==
    /\ Mounted
    /\ limits = Limits(0, 0, 0, 0, 1)
    /\ script \in UNION {[1..n -> EventKinds] : n \in 0..MaxEvents}
    /\ body = BodyOf(script)

NextParser ==
    \/ \E size \in 1..Len(body) : ReadChunk(size)
    \/ ReadClosed

SpecParser == InitParser /\ [][NextParser]_vars

\* One call on each body whose last event may lack its blank line: the
\* backend stops after the event, or after the first newline that follows it
InitParserCut ==
    /\ Mounted
    /\ limits = Limits(0, 0, 0, 0, 1)
    /\ script \in UNION {[1..n -> EventKinds] : n \in 1..MaxEvents}
    /\ \E cut \in 0..2 : body = SubSeq(BodyOf(script), 1, Len(BodyOf(script)) - cut)

SpecParserCut == InitParserCut /\ [][NextParser]_vars

\* One call on each body made of events the loop passes over and of content
\* and error events
InitParserPassedOver ==
    /\ Mounted
    /\ limits = Limits(0, 0, 0, 0, 1)
    /\ script \in UNION {[1..n -> PassedOverKinds \cup {"content", "error"}] :
                            n \in 0..MaxEvents}
    /\ body = BodyOf(script)

SpecParserPassedOver == InitParserPassedOver /\ [][NextParser]_vars

\* The operator at the dashboard with time for a second click: the backend
\* is down, every incident gets the fallback proposal, and the buttons of an
\* approved incident stay until its timer fires
InitRemediation ==
    /\ Mounted
    /\ limits = Limits(MaxRemediationIncidents, 0, 0, MaxRemediationApprovals, 1)
    /\ script = << >>
    /\ body = << >>

NextRemediation ==
    \/ \E pick \in CRITICAL_SCENARIOS, pod \in ALL_PODS, warn \in BOOLEAN :
          Tick(TRUE, pick, pod, warn)
    \/ \E c \in 1..Len(calls), cause \in {"network", "http_status", "no_body"} :
          FetchFails(c, cause)
    \/ \E incidentId \in IncidentIds : ClickApprove(incidentId)
    \/ \E incidentId \in IncidentIds : ClickIgnore(incidentId)
    \/ RemediationTimer

SpecRemediation == InitRemediation /\ [][NextRemediation]_vars

\* The dashboard after LogCap - 1 ticks that gave INFO records: the log list
\* is one record short of the cap
InitLogCap ==
    /\ logs = [k \in 1..(LogCap - 1) |->
                  generateLog(FALSE, 1, CHOOSE pod \in ALL_PODS : TRUE, FALSE,
                              0, 0, k).log]
    /\ now = LogCap - 1
    /\ systemStatus = HEALTHY
    /\ incidents = << >>
    /\ isProcessing = FALSE
    /\ logContextSize = DefaultContextSize
    /\ currentScenario = 0
    /\ scenarioMessageIndex = 0
    /\ calls = << >>
    /\ returned = [id |-> 0, outcome |-> "", callbacks |-> << >>, stream |-> << >>]
    /\ timers = << >>
    /\ approvals = 0
    /\ eventsRead = 0
    /\ delivered = 0
    /\ decoderPending = << >>
    /\ buffer = << >>
    /\ dispatched = << >>
    /\ streamClosed = FALSE
    /\ cutInDelimiter = FALSE
    /\ isLogGenPaused = FALSE
    /\ atPause = << >>
    /\ script = << >>
    /\ body = << >>
    /\ limits = Limits(1, LogCap - 1 + MaxCapTicks, 0, 1, 1)

NextLogCap ==
    \/ \E f \in BOOLEAN, pick \in CRITICAL_SCENARIOS, pod \in ALL_PODS,
          warn \in BOOLEAN : Tick(f, pick, pod, warn)
    \/ \E c \in 1..Len(calls), cause \in {"network", "http_status", "no_body"} :
          FetchFails(c, cause)
    \/ \E incidentId \in IncidentIds : ClickApprove(incidentId)
    \/ \E incidentId \in IncidentIds : ClickIgnore(incidentId)
    \/ RemediationTimer

SpecLogCap == InitLogCap /\ [][NextLogCap]_vars

\* One call on each body made of error events
InitParserError ==
    /\ Mounted
    /\ limits = Limits(0, 0, 0, 0, 1)
    /\ script \in UNION {[1..n -> ErrorKinds] : n \in 0..MaxEvents}
    /\ body = BodyOf(script)

SpecParserError == InitParserError /\ [][NextParser]_vars

\* The interval alone: every tick calls generateLog, forced or not
InitGenerator ==
    /\ Mounted
    /\ limits = Limits(MaxForcedCalls, MaxNormalCalls, 0, 0, MaxPicks)
    /\ script = << >>
    /\ body = << >>

NextGenerator ==
    \E f \in BOOLEAN, pick \in CRITICAL_SCENARIOS, pod \in ALL_PODS,
       warn \in BOOLEAN : Tick(f, pick, pod, warn)

SpecGenerator == InitGenerator /\ [][NextGenerator]_vars

\* The application with the Pause Logs button
NextPause ==
    \/ Next
    \/ ClickPause

SpecPause == Init /\ [][NextPause]_vars

\* The interval and the analysis calls, with streams of several events
InitTrace ==
    /\ Mounted
    /\ limits = Limits(MaxTraceIncidents, 0, MaxTraceEvents, 0, 1)
    /\ script = << >>
    /\ body = << >>

NextTrace ==
    \/ \E f \in BOOLEAN, pick \in CRITICAL_SCENARIOS, pod \in ALL_PODS,
          warn \in BOOLEAN : Tick(f, pick, pod, warn)
    \/ \E c \in 1..Len(calls), cause \in {"network", "http_status", "no_body"} :
          FetchFails(c, cause)
    \/ \E c \in 1..Len(calls) : FetchOk(c)
    \/ \E c \in 1..Len(calls) : ReadFails(c)
    \/ \E c \in 1..Len(calls) : ReadEnd(c)
    \/ \E c \in 1..Len(calls) : ReadThinking(c, Fragment)
    \/ \E c \in 1..Len(calls) : ReadContent(c, Fragment)
    \/ \E c \in 1..Len(calls), proposal \in LlmProposals : ReadDone(c, proposal)
    \/ \E c \in 1..Len(calls) : ReadError(c)
    \/ \E c \in 1..Len(calls) : ReadSkipped(c)

SpecTrace == InitTrace /\ [][NextTrace]_vars

\* The interval together with the settings page: any saved window size
InitWindow ==
    /\ Mounted
    /\ limits = Limits(MaxWindowErrors, MaxWindowNormal, 0, 0, 1)
    /\ script = << >>
    /\ body = << >>

NextWindow ==
    \/ \E f \in BOOLEAN, pick \in CRITICAL_SCENARIOS, pod \in ALL_PODS,
          warn \in BOOLEAN : Tick(f, pick, pod, warn)
    \/ \E size \in ContextSizes : handleLogContextSizeChange(size)

SpecWindow == InitWindow /\ [][NextWindow]_vars

----------------------------------------------------------------------------
(* Properties *)

Indices(incs) == 1..Len(incs)

StatusOf(incs, incidentId) ==
    IF FindById(incs, incidentId) = 0 THEN "none"
    ELSE incs[FindById(incs, incidentId)].status

Analyzing == {k \in Indices(incidents) : incidents[k].status = ANALYZING}

\* Every incident keeps its status in the step
StatusesKept ==
    /\ Len(incidents') = Len(incidents)
    /\ \A k \in Indices(incidents) : incidents'[k].status = incidents[k].status

\* C1: single-flight, at most one incident of the collection is ANALYZING in
\* every reachable state.
C1_SingleFlight == Cardinality(Analyzing) <= 1

\* Incident k is promoted by the step: it is ANALYZING after it and was
\* PENDING, or not yet enqueued, before it.
Promoted(k) ==
    /\ incidents'[k].status = ANALYZING
    /\ k \in Indices(incidents) => incidents[k].status = PENDING

\* Incident k precedes incident j in the queue: earlier createdAt, ties by
\* insertion order.
Precedes(incs, k, j) ==
    \/ incs[k].timestamp < incs[j].timestamp
    \/ incs[k].timestamp = incs[j].timestamp /\ k < j

\* C2: FIFO promotion, whenever a step promotes an incident, every incident
\* that is PENDING after the step comes later in the queue (later createdAt,
\* ties by insertion order), so no older PENDING incident is passed over.
C2_FifoPromotion ==
    [][\A k \in Indices(incidents') :
          Promoted(k) =>
             \A j \in Indices(incidents') \ {k} :
                incidents'[j].status = PENDING => Precedes(incidents', k, j)]_vars

\* C2 witness: the second incident was promoted and the third waits behind it.
C2_Witness ==
    /\ Len(incidents) = 3
    /\ incidents[1].status = ANALYZED
    /\ incidents[2].status = ANALYZING
    /\ incidents[3].status = PENDING

AllowedTransitions ==
    {<<PENDING, ANALYZING>>, <<ANALYZING, ANALYZED>>, <<ANALYZED, RESOLVED>>,
     <<ANALYZED, IGNORED>>}

\* C3: per-incident state machine, every change of an incident's status is one
\* of PENDING->ANALYZING, ANALYZING->ANALYZED, ANALYZED->RESOLVED,
\* ANALYZED->IGNORED.
C3_StateMachine ==
    [][\A k \in Indices(incidents) :
          \/ incidents'[k].status = incidents[k].status
          \/ <<incidents[k].status, incidents'[k].status>> \in AllowedTransitions]_vars

\* C4: terminal stability, an incident that is RESOLVED or IGNORED keeps that
\* status in every later step.
C4_TerminalStability ==
    [][\A k \in Indices(incidents) :
          incidents[k].status \in {RESOLVED, IGNORED} =>
             incidents'[k].status = incidents[k].status]_vars

\* C5: a proposal is set once, at the transition to ANALYZED, and never
\* overwritten: a step changes an incident's proposal only from none, and only
\* together with ANALYZING->ANALYZED.
C5_ProposalSetOnce ==
    [][\A k \in Indices(incidents) :
          incidents'[k].proposal # incidents[k].proposal =>
             /\ incidents[k].proposal = << >>
             /\ incidents[k].status = ANALYZING
             /\ incidents'[k].status = ANALYZED]_vars

\* C6: no failure path blocks the workflow, stated on the final result: when
\* the analysis call of an incident has returned, whatever way it finished,
\* the incident is no longer ANALYZING and has a proposal.
C6_ReturnedCallAnalyzed ==
    returned.id # 0 =>
        /\ StatusOf(incidents, returned.id) # ANALYZING
        /\ incidents[FindById(incidents, returned.id)].proposal # << >>

\* The step in which a call returns because the response status was not ok
HttpStatusReturn ==
    /\ returned' # returned
    /\ returned'.outcome = "http_status"

\* C7: on a non-success HTTP status onError is invoked exactly once and no
\* other callback is; the incident goes ANALYZING->ANALYZED with the fallback
\* proposal, restart_pod on the trigger record's pod.
C7_HttpErrorFallback ==
    [][HttpStatusReturn =>
          LET k == FindById(incidents, returned'.id) IN
          /\ returned'.callbacks = <<"onError">>
          /\ k # 0
          /\ incidents[k].status = ANALYZING
          /\ incidents'[k].status = ANALYZED
          /\ Len(incidents'[k].proposal) = 1
          /\ incidents'[k].proposal[1].toolName = "restart_pod"
          /\ incidents'[k].proposal[1].args.pod = incidents[k].triggerLog.pod]_vars

\* C7 witness: a call has returned on a non-success status and its incident is
\* ANALYZED with the fallback.
C7_Witness ==
    /\ returned.outcome = "http_status"
    /\ StatusOf(incidents, returned.id) = ANALYZED
    /\ incidents[FindById(incidents, returned.id)].proposal[1].toolName = "restart_pod"

\* C8: approve(id) is a no-op when id names no incident or an incident that is
\* not ANALYZED: no status, no log record and the system status change, and no
\* remediation is scheduled.
C8_ApproveNoOp ==
    [][\A incidentId \in IncidentIds :
          CallApprove(incidentId) =>
             /\ incidents' = incidents
             /\ logs' = logs
             /\ systemStatus' = systemStatus
             /\ timers' = timers]_vars

\* C9: ignore(id) on an ANALYZED incident sets it to IGNORED in the same step;
\* on a missing incident or one in another status it leaves every status
\* unchanged.
C9_IgnoreContract ==
    [][\A incidentId \in IncidentIds :
          /\ ClickIgnore(incidentId) =>
                StatusOf(incidents', incidentId) = IGNORED
          /\ CallIgnore(incidentId) => StatusesKept]_vars

TimerPending(incidentId) ==
    \E n \in 1..Len(timers) : timers[n].id = incidentId

\* C10: approve(id) on an ANALYZED incident leaves it ANALYZED and schedules
\* the remediation with the proposal's tool; the timer then, in one step,
\* appends one INFO record naming that tool and sets the incident to RESOLVED;
\* with the timer fair an approved incident eventually is RESOLVED.
C10_ApproveResolves ==
    /\ [][\A incidentId \in IncidentIds :
             ClickApprove(incidentId) =>
                /\ incidents' = incidents
                /\ logs' = logs
                /\ Len(timers') = Len(timers) + 1
                /\ timers'[Len(timers')].id = incidentId
                /\ timers'[Len(timers')].toolName =
                      incidents[FindById(incidents, incidentId)].proposal[1].toolName]_vars
    /\ [][timers' # timers /\ Len(timers') < Len(timers) =>
             /\ Len(logs') = Len(logs) + 1
             /\ SubSeq(logs', 1, Len(logs)) = logs
             /\ logs'[Len(logs')].level = INFO
             /\ logs'[Len(logs')].message.kind = "executed"
             /\ logs'[Len(logs')].message.tool = Head(timers).toolName
             /\ StatusOf(incidents', Head(timers).id) = RESOLVED]_vars
    /\ \A incidentId \in 1..MaxIncidents :
          TimerPending(incidentId) ~> (StatusOf(incidents, incidentId) = RESOLVED)

\* C10 witness: an approved incident is RESOLVED, its timer has fired and the
\* success record is the last of the log.
C10_Witness ==
    /\ approvals > 0
    /\ timers = << >>
    /\ logs # << >>
    /\ logs[Len(logs)].message.kind = "executed"
    /\ \E k \in Indices(incidents) : incidents[k].status = RESOLVED

\* The callbacks of the call when the bytes delivered so far arrive as one
\* chunk; once the body is read to its end these bytes are the whole body
OneChunk ==
    ProcessChunk(<< >>, decode(SubSeq(body, 1, delivered)).text).callbacks

\* C11: chunk invariance, in whatever chunks the body is read, the callbacks
\* invoked and their arguments are those of reading the same bytes as one
\* chunk, at every point of the reading and so for the whole body at its end.
C11_ChunkInvariance == dispatched = OneChunk

\* C11 witness: a body of two dispatched events was read in chunks, one of
\* them ending between the two newlines of a delimiter.
C11_Witness ==
    /\ streamClosed
    /\ cutInDelimiter
    /\ script = <<"thinking", "doneFull">>
    /\ Len(dispatched) = 2

\* The events of the four types whose payload JSON.parse accepts
Parseable == {"thinking", "content", "doneFull", "doneEmpty", "doneBare", "error"}

\* The callback the dispatch rule names for the type of an event
CallbackOfType(kind) ==
    CASE kind = "thinking" -> "onThinking"
      [] kind = "content" -> "onContent"
      [] kind \in {"doneFull", "doneEmpty", "doneBare"} -> "onDone"
      [] kind = "error" -> "onError"

\* The fragment the payload of an event carries
FragmentOf(kind) ==
    CASE kind = "thinking" -> <<EAcute>>
      [] kind = "content" -> <<"B">>
      [] kind = "error" -> <<"E">>
      [] OTHER -> << >>

Range(s) == {s[k] : k \in 1..Len(s)}

\* C12: dispatch mapping and order, a body of complete events of the four
\* types with parseable payloads invokes exactly one callback per event, the
\* one of the event's type, in the order of the events, and each thinking,
\* content or error callback gets the fragment of its own event only.
C12_DispatchMapping ==
    (streamClosed /\ Range(script) \subseteq Parseable) =>
        /\ Len(dispatched) = Len(script)
        /\ \A k \in 1..Len(script) :
              /\ dispatched[k].callback = CallbackOfType(script[k])
              /\ dispatched[k].text = FragmentOf(script[k])

\* The events that follow the protocol: known type, payload with its fields
WellFormed == {"thinking", "content", "doneFull", "doneEmpty", "error"}

IsWellFormed(kind) == kind \in WellFormed

\* What the protocol says a well-formed event dispatches
Expected(kind) ==
    CASE kind = "thinking" -> Callback("onThinking", <<EAcute>>, << >>)
      [] kind = "content" -> Callback("onContent", <<"B">>, << >>)
      [] kind = "error" -> Callback("onError", <<"E">>, << >>)
      [] kind = "doneFull" ->
            Callback("onDone", << >>,
                     <<[toolName |-> <<"t">>, args |-> {<<"k", 1>>},
                        reason |-> <<"r">>]>>)
      [] kind = "doneEmpty" ->
            Callback("onDone", << >>,
                     <<[toolName |-> DefaultToolName, args |-> {},
                        reason |-> << >>]>>)

ExpectedOf(events) == [k \in 1..Len(events) |-> Expected(events[k])]

\* C13: a malformed JSON payload skips only its event, a body of well-formed
\* events and events whose payload does not parse dispatches exactly the
\* callbacks of its well-formed events, in order: nothing for the malformed
\* ones, no onError for them, and the later events are still dispatched.
C13_MalformedSkipped ==
    (/\ streamClosed
     /\ "malformed" \in Range(script)
     /\ Range(script) \subseteq WellFormed \cup {"malformed"}) =>
        dispatched = ExpectedOf(SelectSeq(script, IsWellFormed))

\* C13 witness: a malformed event followed by a content event was read to the
\* end and only onContent was invoked.
C13_Witness ==
    /\ streamClosed
    /\ script = <<"malformed", "content">>
    /\ Len(dispatched) = 1
    /\ dispatched[1].callback = "onContent"

\* C15: a done event carrying a proposal yields onDone with toolName, args and
\* reason of the payload, a missing field replaced by 'scale_deployment', the
\* empty argument map and the empty reason.
C15_DoneDefaults ==
    (/\ streamClosed
     /\ script # << >>
     /\ Range(script) \subseteq {"doneFull", "doneEmpty"}) =>
        /\ Len(dispatched) = Len(script)
        /\ \A k \in 1..Len(script) :
              /\ dispatched[k].callback = "onDone"
              /\ Len(dispatched[k].proposal) = 1
              /\ script[k] = "doneFull" =>
                    /\ dispatched[k].proposal[1].toolName = <<"t">>
                    /\ dispatched[k].proposal[1].args = {<<"k", 1>>}
                    /\ dispatched[k].proposal[1].reason = <<"r">>
              /\ script[k] = "doneEmpty" =>
                    /\ dispatched[k].proposal[1].toolName =
                          <<"s", "c", "a", "l", "e", "_", "d", "e", "p", "l",
                            "o", "y", "m", "e", "n", "t">>
                    /\ dispatched[k].proposal[1].args = {}
                    /\ dispatched[k].proposal[1].reason = << >>

\* C15 witness: a done event whose proposal has no field was dispatched with
\* the defaults, after one whose proposal has every field.
C15_Witness ==
    /\ streamClosed
    /\ script = <<"doneFull", "doneEmpty">>
    /\ Len(dispatched) = 2
    /\ dispatched[2].proposal[1].toolName = DefaultToolName

\* The step in which a call ends on a failure of the transport
FailureReturn ==
    /\ returned' # returned
    /\ returned'.outcome \in {"network", "http_status", "no_body", "read_failure"}

\* C14: analyze never raises, on a network failure at connect or at a later
\* read, or on a non-success HTTP status, the call invokes onError as its last
\* callback, after the callbacks it had invoked, and returns; a call that has
\* returned invokes nothing more, it is no longer among the running calls.
C14_ErrorThenReturn ==
    [][/\ FailureReturn =>
             \E c \in 1..Len(calls) :
                /\ calls[c].id = returned'.id
                /\ returned'.callbacks = Append(calls[c].callbacks, "onError")
       /\ \A c \in 1..Len(calls') : calls'[c].id # returned'.id]_vars

\* C14 witness: a call failed while reading a later chunk, after it had
\* invoked a callback for an earlier one, and returned with onError last.
C14_Witness ==
    /\ returned.outcome = "read_failure"
    /\ Len(returned.callbacks) = 2
    /\ returned.callbacks[2] = "onError"
    /\ \A c \in 1..Len(calls) : calls[c].id # returned.id

SomeIncident(status) == \E k \in Indices(incidents) : incidents[k].status = status

RemediationExecuting == timers # << >>

\* C16: whenever some incident is ANALYZED the system status is
\* INCIDENT_DETECTED.
C16_AnalyzedMeansDetected ==
    SomeIncident(ANALYZED) => systemStatus = INCIDENT_DETECTED

\* C17: whenever no incident is ANALYZED and some incident is ANALYZING the
\* system status is ANALYZING.
C17_AnalyzingMeansAnalyzing ==
    (~SomeIncident(ANALYZED) /\ SomeIncident(ANALYZING)) =>
        systemStatus = ANALYZING_SYSTEM

\* C18: whenever no incident is ANALYZED or ANALYZING the system status is
\* REMEDIATING if a remediation delay is running and HEALTHY otherwise, and
\* the status is HEALTHY only then.
C18_RemediatingOrHealthy ==
    /\ (~SomeIncident(ANALYZED) /\ ~SomeIncident(ANALYZING)) =>
          systemStatus = IF RemediationExecuting THEN REMEDIATING ELSE HEALTHY
    /\ systemStatus = HEALTHY =>
          /\ ~SomeIncident(ANALYZED)
          /\ ~SomeIncident(ANALYZING)
          /\ ~RemediationExecuting

\* C19: the system status is a function of the incident statuses and of
\* whether a remediation is executing, so a step that leaves both as they
\* were leaves the system status as it was.
C19_StatusDerived ==
    [][(StatusesKept /\ RemediationExecuting' = RemediationExecuting) =>
          systemStatus' = systemStatus]_vars

IsError(log) == log.level = ERROR

\* The records of the forced calls so far, in the order of the calls
Forced == SelectSeq(logs, IsError)

\* The position in Forced of the call that started the scenario of call j:
\* a scenario starts at the first forced call and after every ScenarioLen
\* forced calls
StartOf(j) == j - ((j - 1) % ScenarioLen)

\* C20: scenario integrity, counted from the forced call that starts a
\* scenario, the forced calls return its messages 0, 1, ... in this order,
\* each once, with the pod of the scenario's targetPod, whatever non-forced
\* calls come in between.
C20_ScenarioIntegrity ==
    \A j \in 1..Len(Forced) :
       /\ Forced[j].message.kind = "scenario"
       /\ Forced[j].message.scenario = Forced[StartOf(j)].message.scenario
       /\ Forced[j].message.index = j - StartOf(j)
       /\ Forced[j].pod = ScenarioCatalog[Forced[j].message.scenario].targetPod

\* C20 witness: a scenario was emitted to its end with a non-forced record
\* inside it, and the next forced call started another scenario.
C20_Witness ==
    /\ Len(Forced) = ScenarioLen + 1
    /\ Forced[ScenarioLen + 1].message.scenario # Forced[1].message.scenario
    /\ \E k \in 2..Len(logs) :
          /\ logs[k].level # ERROR
          /\ logs[k - 1].level = ERROR
          /\ k < Len(logs) - 1

\* The record the interval callback of the step got from generateLog
Returned == logs'[Len(logs')]

\* The step is one call of generateLog
GeneratorCall == Len(logs') = Len(logs) + 1 /\ now' = now + 1

\* Between calls the index of an active scenario is one of its messages
CursorInRange ==
    currentScenario # 0 => scenarioMessageIndex \in 0..(ScenarioLen - 1)

\* C21: scenario cursor invariant, between generator calls an active scenario
\* has 0 <= nextIndex < its number of messages, and every record returned by a
\* call made while a scenario is active, forced or not, has the pod of the
\* active scenario's targetPod.
C21_CursorAndPod ==
    /\ []CursorInRange
    /\ [][(GeneratorCall /\ currentScenario # 0) =>
             Returned.pod = ScenarioCatalog[currentScenario].targetPod]_vars

\* C22: the forced call that returns the last message of a scenario leaves no
\* active scenario and index 0, and a forced call made with no active
\* scenario returns the first message of the scenario drawn by that call.
C22_LastMessageClears ==
    [][\A pick \in CRITICAL_SCENARIOS, pod \in ALL_PODS, warn \in BOOLEAN :
          Tick(TRUE, pick, pod, warn) =>
             /\ Returned.message.index = ScenarioLen - 1 =>
                   currentScenario' = 0 /\ scenarioMessageIndex' = 0
             /\ currentScenario = 0 =>
                   /\ Returned.message = Message("scenario", pick, 0, "")
                   /\ Returned.pod = ScenarioCatalog[pick].targetPod]_vars

\* C22 witness: a scenario was emitted to its last message and the forced call
\* after it returned the first message of another scenario.
C22_Witness ==
    /\ Len(Forced) = ScenarioLen + 1
    /\ Forced[ScenarioLen].message.index = ScenarioLen - 1
    /\ Forced[ScenarioLen + 1].message.index = 0
    /\ Forced[ScenarioLen + 1].message.scenario # Forced[ScenarioLen].message.scenario
    /\ currentScenario = Forced[ScenarioLen + 1].message.scenario
    /\ scenarioMessageIndex = 1

\* C28: the generator returns severity ERROR exactly when it is called with
\* forceCritical true, a forced call returns ERROR and a call that is not
\* forced returns INFO or WARN, also while a scenario is partly emitted.
C28_ErrorIffForced ==
    [][\A f \in BOOLEAN, pick \in CRITICAL_SCENARIOS, pod \in ALL_PODS,
          warn \in BOOLEAN :
          Tick(f, pick, pod, warn) =>
             IF f THEN Returned.level = ERROR
             ELSE Returned.level \in {INFO, WARN}]_vars

\* C28 witness: a scenario is partly emitted and the last call, which was not
\* forced, returned a WARN record.
C28_Witness ==
    /\ currentScenario # 0
    /\ scenarioMessageIndex = 2
    /\ logs # << >>
    /\ logs[Len(logs)].level = WARN

Min(a, b) == IF a <= b THEN a ELSE b

\* The incident the step appended
Created == incidents'[Len(incidents')]

\* The context of the created incident without its last record
Prior == SubSeq(Created.contextLogs, 1, Len(Created.contextLogs) - 1)

\* What one call of generateLog does to the incident list: an ERROR record
\* appends one incident, waiting (or promoted by the render of the same step),
\* whose context is the trailing window of the buffer and then the trigger
IncidentFactory ==
    IF Returned.level = ERROR
    THEN /\ Len(incidents') = Len(incidents) + 1
         /\ \A k \in Indices(incidents) : incidents'[k].id = incidents[k].id
         /\ Created.status \in {PENDING, ANALYZING}
         /\ Created.status = ANALYZING => Promoted(Len(incidents'))
         /\ Created.triggerLog = Returned
         /\ Created.contextLogs # << >>
         /\ Created.contextLogs[Len(Created.contextLogs)] = Returned
         /\ Cardinality({k \in 1..Len(Created.contextLogs) :
                            Created.contextLogs[k] = Returned}) = 1
         /\ Len(Prior) = Min(logContextSize, Len(logs))
         /\ Prior = SubSeq(logs, Len(logs) - Len(Prior) + 1, Len(logs))
    ELSE incidents' = incidents

\* C23: incident factory, every generated ERROR record creates exactly one
\* new incident in PENDING whose contextLogs is the at most N records that
\* preceded the trigger in the log buffer, for every configured window size N,
\* followed by the trigger as last element, the trigger appearing once; INFO
\* and WARN records create no incident.
C23_IncidentFactory == [][GeneratorCall => IncidentFactory]_vars

\* Neither onDone nor onError is among the callbacks
NoOutcome(callbacks) ==
    "onDone" \notin Range(callbacks) /\ "onError" \notin Range(callbacks)

\* The analysis call of the incident has delivered neither done nor error
Undelivered(incidentId) ==
    /\ \A c \in 1..Len(calls) :
          calls[c].id = incidentId => NoOutcome(calls[c].callbacks)
    /\ returned.id = incidentId => NoOutcome(returned.callbacks)

\* C24: a stalled backend stalls the queue, a step at whose end the analysis
\* call of an ANALYZING incident still has delivered neither a done nor an
\* error outcome promotes no incident, however many are enqueued meanwhile.
C24_StalledBackendStalls ==
    [][\A k \in Indices(incidents) :
          (/\ incidents[k].status = ANALYZING
           /\ Undelivered(incidents[k].id)') =>
             \A j \in Indices(incidents') : ~Promoted(j)]_vars

StatusesOf(incs) == [k \in 1..Len(incs) |-> incs[k].status]

\* C25: pausing the generator stops the log ticks, so no incident is created
\* while it is paused, but an analysis in flight is not cancelled: while
\* paused its thinking, done and error callbacks are applied as ever, its
\* incident reaches ANALYZED, and the oldest PENDING incident is promoted.
C25_PauseKeepsAnalysis ==
    /\ [](isLogGenPaused => Len(incidents) = Len(atPause))
    /\ [][(isLogGenPaused /\ isLogGenPaused') => now' = now]_vars
    /\ [][\A c \in 1..Len(calls) :
             LET k == FindById(incidents, calls[c].id)
                 waiting == FindPending(incidents)
             IN  /\ (isLogGenPaused /\ ReadThinking(c, Fragment)) =>
                       incidents'[k].thinking =
                          Append(calls[c].thinkingBuffer, Fragment)
                 /\ \A proposal \in LlmProposals :
                       (isLogGenPaused /\ ReadDone(c, proposal)) =>
                          /\ incidents'[k].status = ANALYZED
                          /\ incidents'[k].proposal = <<proposal>>
                          /\ waiting # 0 => incidents'[waiting].status = ANALYZING
                 /\ (isLogGenPaused /\ (ReadError(c) \/ ReadFails(c))) =>
                       /\ incidents'[k].status = ANALYZED
                       /\ waiting # 0 => incidents'[waiting].status = ANALYZING]_vars

\* C25 witness: the generator was paused with one incident under analysis and
\* one waiting; while paused the first reached ANALYZED with its proposal and
\* the second was promoted.
C25_Witness ==
    /\ isLogGenPaused
    /\ atPause = <<ANALYZING, PENDING>>
    /\ StatusesOf(incidents) = <<ANALYZED, ANALYZING>>
    /\ incidents[1].proposal # << >>
    /\ returned.id = 0

IsThinkingEvent(e) == e.type = "thinking"

IsContentEvent(e) == e.type = "content"

Payloads(events) == [n \in 1..Len(events) |-> events[n].payload]

\* Only thinking and content events
TracesOnly(events) ==
    \A n \in 1..Len(events) : events[n].type \in {"thinking", "content"}

\* Thinking and content events followed by one done event
TracesThenDone(events) ==
    /\ events # << >>
    /\ events[Len(events)].type = "done"
    /\ TracesOnly(SubSeq(events, 1, Len(events) - 1))

\* C26: for a stream of thinking and content events followed by one done
\* event the incident is ANALYZING until the done event and ANALYZED from it,
\* with the proposal of the done event, the reasoning trace the thinking
\* fragments in stream order and the analysis trace the content fragments in
\* stream order; it still has them when the stream has closed.
C26_TracesConcatenated ==
    /\ [][\A c \in 1..Len(calls), proposal \in LlmProposals :
             (ReadDone(c, proposal) /\ TracesOnly(calls[c].stream)) =>
                LET k == FindById(incidents, calls[c].id) IN
                /\ incidents[k].status = ANALYZING
                /\ incidents'[k].status = ANALYZED
                /\ incidents'[k].proposal = <<proposal>>
                /\ incidents'[k].thinking =
                      Payloads(SelectSeq(calls[c].stream, IsThinkingEvent))
                /\ incidents'[k].analysis =
                      Payloads(SelectSeq(calls[c].stream, IsContentEvent))]_vars
    /\ [](returned.outcome = "closed" /\ TracesThenDone(returned.stream) =>
             LET i == incidents[FindById(incidents, returned.id)] IN
             /\ i.status = ANALYZED
             /\ i.proposal = <<returned.stream[Len(returned.stream)].payload>>
             /\ i.thinking = Payloads(SelectSeq(returned.stream, IsThinkingEvent))
             /\ i.analysis = Payloads(SelectSeq(returned.stream, IsContentEvent)))

\* C26 witness: the stream thinking, content, thinking, done was read and
\* closed; the incident is ANALYZED with both thinking fragments in order.
C26_Witness ==
    /\ returned.id = 1
    /\ returned.outcome = "closed"
    /\ returned.callbacks = <<"onThinking", "onContent", "onThinking", "onDone">>
    /\ incidents[1].status = ANALYZED
    /\ incidents[1].thinking = <<"1", "3">>
    /\ incidents[1].analysis = <<"2">>
    /\ incidents[1].proposal # << >>

\* The analysis call of the incident delivers its done or error outcome
Outcome(incidentId) ==
    \E c \in 1..Len(calls) :
        /\ calls[c].id = incidentId
        /\ NoOutcome(calls[c].callbacks)
        /\ \/ \E cause \in {"network", "http_status", "no_body"} : FetchFails(c, cause)
           \/ ReadFails(c)
           \/ ReadError(c)
           \/ \E proposal \in LlmProposals : ReadDone(c, proposal)

\* The application when no response stream closes before its call has
\* delivered a done or an error outcome
NextLive ==
    \/ \E f \in BOOLEAN, pick \in CRITICAL_SCENARIOS, pod \in ALL_PODS,
          warn \in BOOLEAN : Tick(f, pick, pod, warn)
    \/ \E c \in 1..Len(calls), cause \in {"network", "http_status", "no_body"} :
          FetchFails(c, cause)
    \/ \E c \in 1..Len(calls) : FetchOk(c)
    \/ \E c \in 1..Len(calls) : ReadFails(c)
    \/ \E c \in 1..Len(calls) : ~NoOutcome(calls[c].callbacks) /\ ReadEnd(c)
    \/ \E c \in 1..Len(calls) : ReadThinking(c, Fragment)
    \/ \E c \in 1..Len(calls) : ReadContent(c, Fragment)
    \/ \E c \in 1..Len(calls), proposal \in LlmProposals : ReadDone(c, proposal)
    \/ \E c \in 1..Len(calls) : ReadError(c)
    \/ \E c \in 1..Len(calls) : ReadSkipped(c)
    \/ \E incidentId \in IncidentIds : ClickApprove(incidentId)
    \/ \E incidentId \in IncidentIds : ClickIgnore(incidentId)
    \/ RemediationTimer

\* Every call comes to its outcome and timers that are due are run; the
\* effect that promotes runs in the step of the state change that triggers it
SpecLive ==
    /\ Init
    /\ [][NextLive]_vars
    /\ WF_vars(RemediationTimer)
    /\ \A incidentId \in 1..MaxIncidents : WF_vars(Outcome(incidentId))

\* C27: liveness of the queue, provided every analysis call ends with a done
\* or an error outcome and timers are fair, every incident that waits PENDING
\* is eventually ANALYZING and every ANALYZING incident is eventually
\* ANALYZED, so no enqueued incident starves.
C27_NoStarvation ==
    \A incidentId \in 1..MaxIncidents :
       /\ (StatusOf(incidents, incidentId) = PENDING) ~>
             (StatusOf(incidents, incidentId) = ANALYZING)
       /\ (StatusOf(incidents, incidentId) = ANALYZING) ~>
             (StatusOf(incidents, incidentId) = ANALYZED)

\* C27 witness: three incidents were enqueued, the last one behind the other
\* two, and all three have been analysed, none of the calls is running.
C27_Witness ==
    /\ Len(incidents) = MaxIncidents
    /\ \A k \in Indices(incidents) : incidents[k].status = ANALYZED
    /\ calls = << >>
    /\ ~isProcessing

\* The number of bytes up to the end of the blank line that ends event k
EndOf(k) == Len(BodyOf(SubSeq(script, 1, k)))

\* The events whose blank line lies within the bytes delivered
Terminated == Cardinality({k \in 1..Len(script) : EndOf(k) <= delivered})

\* C29: an event is dispatched only once the blank line that ends it has been
\* received, so the callbacks invoked are those of the events terminated
\* within the bytes delivered; the text after the last blank line is held, in
\* the buffer and the decoder, and when the stream closes it stays there.
C29_DispatchAfterBlankLine ==
    /\ dispatched =
          DispatchEvents([k \in 1..Terminated |-> EventText(script[k])])
    /\ Utf8(buffer) \o decoderPending =
          SubSeq(body, EndOf(Terminated) + 1, delivered)

\* C29 witness: the stream closed after the first newline that follows the
\* second event; only the first event was dispatched and the second is still
\* in the buffer.
C29_Witness ==
    /\ streamClosed
    /\ script = <<"thinking", "content">>
    /\ Len(body) = EndOf(2) - 1
    /\ Len(dispatched) = 1
    /\ dispatched[1].callback = "onThinking"
    /\ buffer = EventText("content") \o <<NL>>

\* C30: an event without event: line has type message; an event of type
\* message or of a type other than thinking, content, done and error, an
\* event without data: line and a done event whose payload has no proposal
\* invoke no callback and do not stop the stream: the callbacks of a body are
\* those of its other events, in order, the later ones included.
C30_PassedOverEvents ==
    /\ Len(dispatched) <= Len(SelectSeq(script, IsWellFormed))
    /\ streamClosed => dispatched = ExpectedOf(SelectSeq(script, IsWellFormed))

\* C30 witness: an event without event: line, whose payload has a content
\* field, was followed by an error event; only onError was invoked.
C30_Witness ==
    /\ streamClosed
    /\ script = <<"untyped", "error">>
    /\ Len(dispatched) = 1
    /\ dispatched[1] = Callback("onError", <<"E">>, << >>)

\* The content string in the payload of an error event
ContentOf(kind) == IF kind = "error" THEN <<"E">> ELSE << >>

\* C31 as stated: every error event whose payload has a content string
\* invokes onError with exactly that string, the empty string included.
C31_ErrorVerbatim ==
    streamClosed =>
        /\ Len(dispatched) = Len(script)
        /\ \A k \in 1..Len(script) :
              script[k] \in {"error", "errorEmpty"} =>
                  dispatched[k] = Callback("onError", ContentOf(script[k]), << >>)

\* C31: an error event invokes onError once, with the string in the payload's
\* content field when that string is not empty, and with 'Unknown error'
\* when the content is the empty string or the payload has no content.
C31_ErrorContentOrDefault ==
    streamClosed =>
        /\ Len(dispatched) = Len(script)
        /\ \A k \in 1..Len(script) :
              dispatched[k] =
                  Callback("onError",
                           IF ContentOf(script[k]) # << >>
                           THEN ContentOf(script[k]) ELSE UnknownError,
                           << >>)

\* C31 witness: an error event with content 'E' and one with content '' were
\* read to the end of the stream; onError got 'E', then 'Unknown error'.
C31_Witness ==
    /\ streamClosed
    /\ script = <<"error", "errorEmpty">>
    /\ Len(dispatched) = 2
    /\ dispatched[1].text = <<"E">>
    /\ dispatched[2].text = UnknownError

\* The terminal callbacks, onDone and onError, among the callbacks of a call
IsTerminal(callback) == callback \in {"onDone", "onError"}

Terminals(callbacks) == Len(SelectSeq(callbacks, IsTerminal))

\* C32: one call of analyzeLogsStreaming invokes at most one terminal
\* callback; once onDone or onError has been invoked the call invokes
\* neither of them again, whatever the stream delivers afterwards.
C32_OneTerminalCallback ==
    /\ \A c \in 1..Len(calls) : Terminals(calls[c].callbacks) <= 1
    /\ Terminals(returned.callbacks) <= 1

\* C33: between event handlers isProcessing is true if and only if exactly
\* one incident is ANALYZING.
C33_ProcessingIffOneAnalyzing ==
    isProcessing <=> Cardinality(Analyzing) = 1

\* C34: every incident that is ANALYZED or RESOLVED has a proposal, and every
\* incident that is PENDING or ANALYZING has none.
C34_ProposalMatchesStatus ==
    \A k \in Indices(incidents) :
        /\ incidents[k].status \in {ANALYZED, RESOLVED} =>
              incidents[k].proposal # << >>
        /\ incidents[k].status \in {PENDING, ANALYZING} =>
              incidents[k].proposal = << >>

\* C34 witness: approve was called for the incident under analysis, which has
\* no proposal, and it is still ANALYZING; an earlier incident is ANALYZED
\* with its proposal and a later one is PENDING.
C34_Witness ==
    /\ Len(incidents) = 3
    /\ approvals = 1
    /\ timers = << >>
    /\ incidents[1].status = ANALYZED /\ incidents[1].proposal # << >>
    /\ incidents[2].status = ANALYZING /\ incidents[2].proposal = << >>
    /\ incidents[3].status = PENDING /\ incidents[3].proposal = << >>
    /\ systemStatus = REMEDIATING

\* The synthetic success records in the log list
SuccessRecords == {k \in 1..Len(logs) : logs[k].pod = "kube-controller"}

Resolved == {k \in Indices(incidents) : incidents[k].status = RESOLVED}

\* C35: at most one remediation is executed per incident, whatever approve
\* and ignore calls are made during the delay: every success record in the
\* log list is the record of one incident that became RESOLVED, so there are
\* as many success records as RESOLVED incidents.
C35_OneRemediationPerIncident ==
    Cardinality(SuccessRecords) = Cardinality(Resolved)

\* C36: the system status is REMEDIATING only while a remediation delay is
\* in progress: the timer of some approved incident was started and has not
\* fired yet.
C36_RemediatingOnlyDuringDelay ==
    systemStatus = REMEDIATING =>
        \E t \in 1..Len(timers) : FindById(incidents, timers[t].id) # 0

\* C36 witness: incident 1 was approved while incident 2 is under analysis;
\* the status is REMEDIATING and the timer of incident 1 has not fired.
C36_Witness ==
    /\ systemStatus = REMEDIATING
    /\ Len(timers) = 1
    /\ timers[1].id = 1
    /\ Len(incidents) >= 2
    /\ incidents[1].status = ANALYZED
    /\ incidents[2].status = ANALYZING

\* C37: the log list is bounded, after any interleaving of log ticks and
\* remediation timers it holds at most LogCap records.
C37_LogsBounded == Len(logs) <= LogCap

\* C38: the incident collection is append-only, no step removes or reorders
\* an incident, and the id, the creation time, the trigger log and the
\* context logs of an incident are after every step what they were at enqueue.
C38_AppendOnly ==
    [][/\ Len(incidents') >= Len(incidents)
       /\ \A k \in Indices(incidents) :
             /\ incidents'[k].id = incidents[k].id
             /\ incidents'[k].timestamp = incidents[k].timestamp
             /\ incidents'[k].triggerLog = incidents[k].triggerLog
             /\ incidents'[k].contextLogs = incidents[k].contextLogs]_vars

\* C38 witness: three incidents were enqueued and have since been resolved,
\* ignored and analysed; they are in the order of their enqueue, each with
\* the trigger log of its own tick.
C38_Witness ==
    /\ Len(incidents) = 3
    /\ incidents[1].status = RESOLVED
    /\ incidents[2].status = IGNORED
    /\ incidents[3].status = ANALYZED
    /\ \A k \in 1..3 :
          /\ incidents[k].id = k
          /\ incidents[k].timestamp = k
          /\ incidents[k].triggerLog = logs[k]
          /\ incidents[k].contextLogs = SubSeq(logs, 1, k)

\* Incident k is left as it was by the step, or is the PENDING incident the
\* queue check of the step promotes, which changes its status only
KeptOrPromoted(k) ==
    \/ incidents'[k] = incidents[k]
    \/ /\ incidents[k].status = PENDING
       /\ incidents'[k] = [incidents[k] EXCEPT !.status = ANALYZING]

\* The step changes no incident but the one named, and the one it promotes
OnlyChanges(incidentId) ==
    /\ Len(incidents') >= Len(incidents)
    /\ \A k \in Indices(incidents) :
          incidents[k].id # incidentId => KeptOrPromoted(k)
    /\ Cardinality({k \in Indices(incidents) :
                        incidents'[k].status # incidents[k].status
                        /\ incidents'[k].status = ANALYZING}) <= 1

\* The step in which call c invokes a callback of processQueue
CallbackOf(c) ==
    \/ \E cause \in {"network", "http_status", "no_body"} : FetchFails(c, cause)
    \/ ReadFails(c)
    \/ ReadThinking(c, Fragment)
    \/ ReadContent(c, Fragment)
    \/ \E proposal \in LlmProposals : ReadDone(c, proposal)
    \/ ReadError(c)

\* C39: incident ids being pairwise distinct, every transition changes only
\* the incident it names: a callback that of its call, the timer and ignore
\* that of their id, the promotion the promoted one, of which it changes the
\* status only; status, proposal and traces of every other incident are
\* unchanged by the step, and a tick or an approve changes no incident
\* already enqueued.
C39_OnlyNamedIncident ==
    [][/\ \A k, n \in Indices(incidents) :
             incidents[k].id = incidents[n].id => k = n
       /\ \A c \in 1..Len(calls) : CallbackOf(c) => OnlyChanges(calls[c].id)
       /\ (timers # << >> /\ RemediationTimer) => OnlyChanges(Head(timers).id)
       /\ \A incidentId \in IncidentIds :
             /\ handleIgnore(incidentId) => OnlyChanges(incidentId)
             /\ handleApprove(incidentId) => OnlyChanges(0)
       /\ GeneratorCall => OnlyChanges(0)]_vars

\* C39 witness: the thinking event and the failure of call 1 were applied to
\* incident 1 alone, incident 2 was ignored and incident 3 is under analysis:
\* incident 1 alone has the trace, incident 3 has no proposal.
C39_Witness ==
    /\ Len(incidents) = 3
    /\ incidents[1].status = ANALYZED
    /\ incidents[1].thinking = <<"1">>
    /\ incidents[2].status = IGNORED
    /\ incidents[2].thinking = << >>
    /\ incidents[2].proposal # << >>
    /\ incidents[3].status = ANALYZING
    /\ incidents[3].thinking = << >>
    /\ incidents[3].proposal = << >>

\* C40: a call of the generator that is not forced leaves the scenario
\* cursor unchanged, the active scenario and the index are after it what
\* they were before it, so a forced call made while a scenario is active
\* returns the message of that scenario at the index the last forced call
\* left, whatever calls that were not forced came in between.
C40_NormalCallKeepsCursor ==
    [][\A pick \in CRITICAL_SCENARIOS, pod \in ALL_PODS, warn \in BOOLEAN :
          /\ Tick(FALSE, pick, pod, warn) =>
                /\ currentScenario' = currentScenario
                /\ scenarioMessageIndex' = scenarioMessageIndex
          /\ (Tick(TRUE, pick, pod, warn) /\ currentScenario # 0) =>
                /\ Returned.message =
                      Message("scenario", currentScenario, scenarioMessageIndex, "")
                /\ Len(Forced) > 0
                /\ Returned.message.scenario = Forced[Len(Forced)].message.scenario
                /\ Returned.message.index = Forced[Len(Forced)].message.index + 1]_vars

\* C40 witness: the first message of a scenario was followed by two calls
\* that were not forced, and the forced call after them returned the second
\* message of the same scenario.
C40_Witness ==
    /\ Len(logs) = 4
    /\ logs[1].level = ERROR /\ logs[1].message.index = 0
    /\ logs[2].level # ERROR
    /\ logs[3].level # ERROR
    /\ logs[4].level = ERROR /\ logs[4].message.index = 1
    /\ logs[4].message.scenario = logs[1].message.scenario
    /\ currentScenario = logs[1].message.scenario
    /\ scenarioMessageIndex = 2

====
